---------------------------- MODULE Spec2Model ----------------------------
(***************************************************************************)
(* A model of src/agentic-war-background/src/app/page.tsx: the seeded      *)
(* generator mulberry32, the permutation-table noise of createPerlin, the  *)
(* drawScene pipeline and the Home component that calls it for the preview *)
(* and for the export.                                                     *)
(*                                                                         *)
(* A 32-bit word is the pair <<hi, lo>> of its 16-bit halves: TLC          *)
(* has no integers beyond 2^31 - 1.  JavaScript's signed view of a word    *)
(* (a | 0) and its unsigned view (a >>> 0) are the same 32 bits, so one    *)
(* representation serves both.  A value returned by random() is the word   *)
(* n that is its numerator: the number itself is n / 4294967296.           *)
(***************************************************************************)
EXTENDS Integers, Sequences, FiniteSets, TLC

VARIABLES
    a,            \* mulberry32: the closure's state word
    drawn,        \* number of random() calls made on the current generator
    lastValue,    \* numerator word of the value random() returned last
    run,          \* the arguments of the current call (its seed among them)
    random,       \* the generator handed to createPerlin and to the layers
    p,            \* createPerlin: the 256-entry array being shuffled
    idx,          \* createPerlin: the shuffle loop's i
    permutation,  \* createPerlin: the 512-entry table the noise function reads
    sample,       \* the last evaluation of the noise function
    pc,           \* where the current call stands
    log,          \* drawScene: the steps the current call has taken, in order
    scene,        \* drawScene: what the layers of the current call have drawn
    outcome,      \* drawScene: what the current call handed back to its caller
    history,      \* the calls of drawScene that have returned
    seed,         \* Home: the seed state
    observed,     \* Home: the seed the connected ResizeObserver's callback closes over
    viewport,     \* Home: <<clientWidth, clientHeight>> of the container
    previewCtx,   \* Home: whether the preview canvas yields a 2d context
    effects,      \* Home: "pending" from a render with a new seed until its effects ran
    roPending,    \* Home: the ResizeObserver has a notification to deliver
    lastPreview,  \* Home: the arguments of the last drawScene call of renderPreview
    lastExport,   \* Home: the last file that download offered
    nEvents       \* number of user events so far

rngVars == <<a, drawn, lastValue>>
perlinVars == <<p, idx, permutation, sample>>
sceneVars == <<log, scene, outcome, history>>
homeVars == <<seed, observed, viewport, previewCtx, effects, roPending,
              lastPreview, lastExport, nEvents>>
vars == <<a, drawn, lastValue, run, random, p, idx, permutation, sample, pc,
          log, scene, outcome, history, seed, observed, viewport, previewCtx,
          effects, roPending, lastPreview, lastExport, nEvents>>

(***************************************************************************)
(* Bind(v, F) is F(v) with v evaluated once, before F: the let of a        *)
(* strict language.  The code's sequencing is written with it.             *)
(***************************************************************************)
Bind(v, F(_)) == CHOOSE r \in { F(x) : x \in {v} } : TRUE

(***************************************************************************)
(* 32-bit arithmetic, as the engine performs it.                           *)
(***************************************************************************)
B16 == 2^16
B8 == 2^8

Bit(x, k) == (x \div 2^k) % 2

RECURSIVE XorBits(_, _, _)
XorBits(x, y, k) ==
    IF k < 0 THEN 0 ELSE 2^k * ((Bit(x, k) + Bit(y, k)) % 2) + XorBits(x, y, k - 1)

RECURSIVE OrBits(_, _, _)
OrBits(x, y, k) ==
    IF k < 0 THEN 0 ELSE 2^k * (IF Bit(x, k) + Bit(y, k) > 0 THEN 1 ELSE 0) + OrBits(x, y, k - 1)

\* the bitwise operations on bytes, tabulated
XorByte == [x \in 0..255 |-> [y \in 0..255 |-> XorBits(x, y, 7)]]

OrByte == [x \in 0..255 |-> [y \in 0..255 |-> OrBits(x, y, 7)]]

Xor16(x, y) == XorByte[x % B8][y % B8] + B8 * XorByte[x \div B8][y \div B8]

Or16(x, y) == OrByte[x % B8][y % B8] + B8 * OrByte[x \div B8][y \div B8]

\* x ^ y
Xor32(x, y) == <<Xor16(x[1], y[1]), Xor16(x[2], y[2])>>

\* x | y
Or32(x, y) == <<Or16(x[1], y[1]), Or16(x[2], y[2])>>

\* x >>> 15, x >>> 7 and x >>> 14
Ushr15(x) == <<x[1] \div 32768, (x[2] \div 32768) + (x[1] % 32768) * 2>>
Ushr7(x) == <<x[1] \div 128, (x[2] \div 128) + (x[1] % 128) * 512>>
Ushr14(x) == <<x[1] \div 16384, (x[2] \div 16384) + (x[1] % 16384) * 4>>

\* (x + y) | 0: the sum wraps to 32 bits
Add32(x, y) == <<(x[1] + y[1] + (x[2] + y[2]) \div B16) % B16, (x[2] + y[2]) % B16>>

\* the low 16 bits of u * v, for 16-bit u and v
MulLow16(u, v) == (((u * (v \div B8)) % B8) * B8 + u * (v % B8)) % B16

\* the product of the low halves xl and yl as <<carry into the high half, low half>>
MulHalves(xl, yl) ==
    Bind((xl \div B8) * (yl % B8) + (xl % B8) * (yl \div B8), LAMBDA m :
      Bind((xl % B8) * (yl % B8) + (m % B8) * B8, LAMBDA s :
        <<s \div B16 + m \div B8 + (xl \div B8) * (yl \div B8), s % B16>>))

\* Math.imul(x, y): the low 32 bits of the product
Imul(x, y) ==
    Bind(MulHalves(x[2], y[2]), LAMBDA lo :
      <<(lo[1] + MulLow16(x[1], y[2]) + MulLow16(x[2], y[1])) % B16, lo[2]>>)

\* Math.floor(r * k) for a random value r with numerator word n, 0 <= k < 2^15
FloorMul(n, k) == (n[1] * k + (n[2] * k) \div B16) \div B16

(***************************************************************************)
(* mulberry32 (page.tsx, lines 17-26).                                     *)
(***************************************************************************)
\* 0x6d2b79f5
Increment == <<27947, 31221>>

\* line 18: let a = seed >>> 0.  Seeds are drawn as 32-bit words already.
Mulberry32Init(s) == s

\* lines 20-21: the state after one call, from state s
Mulberry32Advance(s) == Add32(s, Increment)

MutOutputShift16(s) ==
    Bind(Imul(Xor32(s, <<0, s[1]>>), Or32(<<0, 1>>, s)), LAMBDA t1 :
      Bind(Xor32(t1, Add32(t1, Imul(Xor32(t1, Ushr7(t1)), Or32(<<0, 61>>, t1)))), LAMBDA t2 :
        Xor32(t2, Ushr14(t2))))

\* lines 22-24: the numerator of the value a call returns, s being the state
\* that call has just advanced to
Mulberry32Output(s) ==
    Bind(Imul(Xor32(s, Ushr15(s)), Or32(<<0, 1>>, s)), LAMBDA t1 :
      Bind(Xor32(t1, Add32(t1, Imul(Xor32(t1, Ushr7(t1)), Or32(<<0, 61>>, t1)))), LAMBDA t2 :
        Xor32(t2, Ushr14(t2))))

\* lines 19-25: one call of the returned closure, from state s
Mulberry32Next(s) ==
    Bind(Mulberry32Advance(s), LAMBDA a1 : [state |-> a1, value |-> Mulberry32Output(a1)])

(***************************************************************************)
(* createPerlin (page.tsx, lines 28-73).                                   *)
(***************************************************************************)
\* The generators a caller can hand over: mulberry32, whose state is the word
\* a, or a stub that returns the values of a fixed list in turn, for ever (its
\* state is <<0, k>> after k calls, k counted modulo the list's length).
Mulberry == [kind |-> "mulberry32"]

Advance(g, s) ==
    IF g.kind = "mulberry32" THEN Mulberry32Advance(s) ELSE <<0, (s[2] + 1) % Len(g.values)>>

CallRandom(g, s) ==
    IF g.kind = "mulberry32"
    THEN Mulberry32Next(s)
    ELSE [state |-> Advance(g, s), value |-> g.values[s[2] + 1]]

\* lines 29-33: p[i] = i
Identity == [i \in 0..255 |-> i]

NoTable == [i \in 0..511 |-> 0]

MutSwapNoTmp(q, i, j) == [q EXCEPT ![i] = q[j]]

\* lines 36-38: swap p[i] and p[j] through tmp
Swap(q, i, j) == [q EXCEPT ![i] = q[j], ![j] = q[i]]

\* lines 35-38: one pass of the loop body at index i, from st = [p, a, drawn]
ShuffleStep(g, st, i) ==
    Bind(CallRandom(g, st.a), LAMBDA r :
      [p |-> Swap(st.p, i, FloorMul(r.value, i + 1)), a |-> r.state,
       drawn |-> st.drawn + 1, value |-> r.value])

\* lines 34-39: the passes for i = from, from - 1, ..., to in that order
RECURSIVE ShuffleRange(_, _, _, _)
ShuffleRange(g, st, from, to) ==
    IF from < to THEN st
    ELSE IF from = to THEN ShuffleStep(g, st, from)
    ELSE Bind(ShuffleRange(g, st, from, (from + to) \div 2 + 1), LAMBDA half :
           ShuffleRange(g, half, (from + to) \div 2, to))

\* lines 40-42: permutation[i] = p[i & 255]
Duplicate(q) == [i \in 0..511 |-> q[i % 256]]

\* The noise function is evaluated in exact arithmetic on the points of a grid:
\* a coordinate is the integer q that stands for q / NoiseGrid.
NoiseGrid == 4

G5 == NoiseGrid ^ 5

\* line 44: fade(k / NoiseGrid) * NoiseGrid^5
Fade(k) == k * k * k * (k * (k * 6 - 15 * NoiseGrid) + 10 * NoiseGrid * NoiseGrid)

\* line 45: lerp(t / G5, x, y) * G5
Lerp(t, x, y) == x * G5 + t * (y - x)

\* lines 46-51
Grad(hash, x, y) ==
    LET h == hash % 4
        u == IF h < 2 THEN x ELSE y
        v == IF h < 2 THEN y ELSE x
    IN  (IF h % 2 = 0 THEN u ELSE -u) + (IF (h \div 2) % 2 = 0 THEN v ELSE -v)

\* lines 54-69: the cell, the offsets in it, the four hashes looked up and the
\* interpolation of line 71's lerp(v, x1, x2), times NoiseGrid^11
Corners(perm, qx, qy) ==
    LET X  == (qx \div NoiseGrid) % 256
        Y  == (qy \div NoiseGrid) % 256
        xf == qx % NoiseGrid
        yf == qy % NoiseGrid
        aa == perm[X + perm[Y]]
        ab == perm[X + perm[Y + 1]]
        ba == perm[X + 1 + perm[Y]]
        bb == perm[X + 1 + perm[Y + 1]]
        x1 == Lerp(Fade(xf), Grad(aa, xf, yf), Grad(ba, xf - NoiseGrid, yf))
        x2 == Lerp(Fade(xf), Grad(ab, xf, yf - NoiseGrid), Grad(bb, xf - NoiseGrid, yf - NoiseGrid))
    IN  [x |-> qx, y |-> qy, corners |-> <<aa, ab, ba, bb>>,
         reads |-> {Y, Y + 1, X + perm[Y], X + perm[Y + 1], X + 1 + perm[Y], X + 1 + perm[Y + 1]},
         blend |-> Lerp(Fade(yf), x1, x2)]

MutNoiseRaw(perm, qx, qy) ==
    Bind(Corners(perm, qx, qy), LAMBDA c :
      [x |-> c.x, y |-> c.y, corners |-> c.corners, reads |-> c.reads,
       num |-> c.blend, den |-> NoiseGrid * G5 * G5])

\* lines 53-72: the returned function at (qx / NoiseGrid, qy / NoiseGrid).  Its
\* value is num / den; reads are the indices of permutation it looks up.
NoiseFn(perm, qx, qy) ==
    Bind(Corners(perm, qx, qy), LAMBDA c :
      [x |-> c.x, y |-> c.y, corners |-> c.corners, reads |-> c.reads,
       num |-> c.blend + NoiseGrid * G5 * G5, den |-> 2 * NoiseGrid * G5 * G5])

NoSample == [x |-> 0, y |-> 0, corners |-> <<>>, reads |-> {}, num |-> 0, den |-> 1]

(***************************************************************************)
(* The scene layers (page.tsx, lines 75-208).  A layer is a function of    *)
(* the generator's state st = [a, drawn], the table and the canvas         *)
(* dimensions.  What it draws is kept as the random values that place each *)
(* shape: a shape's coordinates are those values scaled by width and       *)
(* height.                                                                 *)
(***************************************************************************)
\* n calls of random(): the state after them and the values, in order
RECURSIVE Calls(_, _, _)
Calls(g, st, n) ==
    IF n = 0 THEN [st |-> st, values |-> <<>>]
    ELSE Bind(CallRandom(g, st.a), LAMBDA c :
         Bind(Calls(g, [a |-> c.state, drawn |-> st.drawn + 1], n - 1), LAMBDA rest :
           [st |-> rest.st, values |-> <<c.value>> \o rest.values]))

\* the state after n calls of random() whose values place nothing the model keeps
RECURSIVE Skip(_, _, _)
Skip(g, st, n) ==
    IF n <= 0 THEN st
    ELSE IF n = 1 THEN [a |-> Advance(g, st.a), drawn |-> st.drawn + 1]
    ELSE Bind(Skip(g, st, n \div 2), LAMBDA half : Skip(g, half, n - n \div 2))

\* lines 94-108: count fireballs, each of baseX, baseY and radius
RECURSIVE Fireballs(_, _, _)
Fireballs(g, st, count) ==
    IF count = 0 THEN [st |-> st, shapes |-> <<>>]
    ELSE Bind(Calls(g, st, 3), LAMBDA c :
         Bind(Fireballs(g, c.st, count - 1), LAMBDA rest :
           [st |-> rest.st, shapes |-> <<c.values>> \o rest.shapes]))

\* lines 92-109; line 93: fireballCount = 3 + Math.floor(random() * 2)
Explosion(g, st) ==
    Bind(Calls(g, st, 1), LAMBDA c : Fireballs(g, c.st, 3 + FloorMul(c.values[1], 2)))

\* lines 119 and 156: for (x = 0; x <= width; x += width / n) ends when width is
\* not 0.  With width = 0 the step is 0 and x <= width stays true.
PathLoopEnds(width) == width # 0

\* lines 111-129: the 16 layers' offsets
Smoke(g, st) == Calls(g, st, 16)

\* line 136: the grid point at or below (x * 0.03, y * 0.03), for
\* x = random() * width and y = height * (0.4 + random() * 0.45)
EmberPoint(rx, ry, width, height) ==
    << FloorMul(rx, width * 3 * NoiseGrid) \div 100,
       (120 * height * NoiseGrid + FloorMul(ry, 135 * height * NoiseGrid)) \div 10000 >>

\* line 137: intensity < 0.45
Dim(n) == 10 * n.num < 9 * (n.den \div 2)

\* lines 134-137: whether the candidate at the values xy is skipped
Skipped(perm, xy, width, height) ==
    Bind(EmberPoint(xy[1], xy[2], width, height), LAMBDA pt : Dim(NoiseFn(perm, pt[1], pt[2])))

\* lines 133-149: the passes i, i + 1, ..., count - 1 of the loop.  An ember
\* that is drawn takes four more values (size, rotation, opacity, length).
RECURSIVE EmberLoop(_, _, _, _, _, _, _)
EmberLoop(g, st, perm, width, height, i, count) ==
    IF i >= count THEN [st |-> st, shapes |-> <<>>]
    ELSE Bind(Calls(g, st, 2), LAMBDA c :
         IF Skipped(perm, c.values, width, height)
         THEN EmberLoop(g, c.st, perm, width, height, i + 1, count)
         ELSE Bind(EmberLoop(g, Skip(g, c.st, 4), perm, width, height, i + 1, count),
                   LAMBDA rest : [st |-> rest.st, shapes |-> <<c.values>> \o rest.shapes]))

\* lines 131-150; line 132: count = Math.floor(width * 0.7)
Embers(g, st, perm, width, height) ==
    EmberLoop(g, st, perm, width, height, 0, (width * 7) \div 10)

\* lines 167-186: the structures, each of nine random values: those of x,
\* baseHeight, widthFactor and the translation are kept
RECURSIVE Structures(_, _, _)
Structures(g, st, count) ==
    IF count = 0 THEN [st |-> st, shapes |-> <<>>]
    ELSE Bind(Calls(g, st, 4), LAMBDA c :
         Bind(Structures(g, Skip(g, c.st, 5), count - 1), LAMBDA rest :
           [st |-> rest.st, shapes |-> <<c.values>> \o rest.shapes]))

\* lines 152-196; line 166: structures = 12 + Math.floor(random() * 6)
Terrain(g, st) ==
    Bind(Calls(g, st, 1), LAMBDA c : Structures(g, c.st, 12 + FloorMul(c.values[1], 6)))

\* line 199: density = Math.floor(width * 3.6)
Density(width) == (width * 36) \div 10

\* lines 198-208: density squares of four random values each
AtmosphericDust(g, st, width) == Skip(g, st, 4 * Density(width))

(***************************************************************************)
(* SpecRandom: a generator is created from a seed and called repeatedly.   *)
(***************************************************************************)
MaxDraws == 12

SeedSamples == { <<0, 0>>, <<0, 42>>, <<0, 123>>, <<32768, 0>>, <<37588, 34571>>,
                 <<65535, 65535>>, <<65535, 0>>, <<4660, 22136>>, <<32767, 65535>> }

NoRun == [caller |-> "none", ctx |-> FALSE, width |-> 0, height |-> 0, seed |-> <<0, 0>>]

None == [none |-> TRUE]

NoScene == [fireballs |-> <<>>, offsets |-> <<>>, embers |-> <<>>, structures |-> <<>>,
            dust |-> 0, marks |-> <<>>]

\* the variables of drawScene and of Home, where only the library is exercised
LibraryOnly ==
    /\ log = <<>> /\ scene = NoScene /\ outcome = "none" /\ history = {}
    /\ seed = <<0, 0>> /\ observed = None /\ viewport = <<0, 0>> /\ previewCtx = FALSE
    /\ effects = "done" /\ roPending = FALSE /\ lastPreview = None /\ lastExport = None
    /\ nEvents = 0

InitRandom ==
    /\ \E s \in SeedSamples :
          /\ run = [NoRun EXCEPT !.caller = "random", !.seed = s]
          /\ a = Mulberry32Init(s)
    /\ drawn = 0
    /\ lastValue = <<0, 0>>
    /\ random = Mulberry
    /\ p = Identity /\ idx = 0 /\ permutation = NoTable /\ sample = NoSample
    /\ pc = "random"
    /\ LibraryOnly

Random ==
    /\ run.caller = "random"
    /\ drawn < MaxDraws
    /\ \E r \in {Mulberry32Next(a)} :
          /\ a' = r.state
          /\ lastValue' = r.value
    /\ drawn' = drawn + 1
    /\ UNCHANGED <<run, random, perlinVars, pc, sceneVars, homeVars>>

NextRandom == Random

SpecRandom == InitRandom /\ [][NextRandom]_vars

(***************************************************************************)
(* SpecPerlin: createPerlin is called with a generator, one pass of its    *)
(* shuffle loop at a time, and the function it returns is then evaluated.  *)
(***************************************************************************)
MaxScript == 2

ValueSamples == { <<0, 0>>, <<65535, 65535>>, <<32768, 0>> }

Stubs == { [kind |-> "stub", values |-> v] :
             v \in UNION { [1..n -> ValueSamples] : n \in 1..MaxScript } }

PerlinSeeds == { <<0, 0>>, <<0, 42>>, <<65535, 65535>> }

\* grid coordinates in the cells -1, 0, 1, 254, 255 and 256
SampleCoords == { c * NoiseGrid + k : c \in {-1, 0, 1, 254, 255, 256}, k \in 0..(NoiseGrid - 1) }

InitPerlin ==
    /\ \/ /\ random = Mulberry
          /\ \E s \in PerlinSeeds :
                /\ run = [NoRun EXCEPT !.caller = "perlin", !.seed = s]
                /\ a = Mulberry32Init(s)
       \/ /\ random \in Stubs
          /\ run = [NoRun EXCEPT !.caller = "perlin"]
          /\ a = <<0, 0>>
    /\ drawn = 0
    /\ lastValue = <<0, 0>>
    /\ p = Identity
    /\ idx = 255
    /\ permutation = NoTable
    /\ sample = NoSample
    /\ pc = "shuffle"
    /\ LibraryOnly

\* lines 34-39, one pass
Shuffle ==
    /\ pc = "shuffle"
    /\ idx > 0
    /\ \E st \in {ShuffleStep(random, [p |-> p, a |-> a, drawn |-> drawn], idx)} :
          /\ p' = st.p
          /\ a' = st.a
          /\ drawn' = st.drawn
          /\ lastValue' = st.value
    /\ idx' = idx - 1
    /\ UNCHANGED <<run, random, permutation, sample, pc, sceneVars, homeVars>>

\* lines 40-42
BuildTable ==
    /\ pc = "shuffle"
    /\ idx = 0
    /\ permutation' = Duplicate(p)
    /\ pc' = "ready"
    /\ UNCHANGED <<rngVars, run, random, p, idx, sample, sceneVars, homeVars>>

\* lines 53-72
Perlin ==
    /\ pc = "ready"
    /\ sample = NoSample
    /\ \E qx \in SampleCoords, qy \in SampleCoords :
          sample' = NoiseFn(permutation, qx, qy)
    /\ UNCHANGED <<rngVars, run, random, p, idx, permutation, pc, sceneVars, homeVars>>

NextPerlin == Shuffle \/ BuildTable \/ Perlin

SpecPerlin == InitPerlin /\ [][NextPerlin]_vars

(***************************************************************************)
(* Spec: the Home component (page.tsx, lines 226-313) and the calls of     *)
(* drawScene (lines 210-224) it makes, one statement of drawScene at a     *)
(* time.  JavaScript runs one call at a time: an event is handled when no  *)
(* call is in progress (pc = "idle").  React runs the effects of a render  *)
(* caused by a click before it yields to the browser, so no other event is *)
(* handled while effects are pending.                                      *)
(***************************************************************************)
DOWNLOAD_WIDTH == 7680
DOWNLOAD_HEIGHT == 4320

\* The export is drawn at DOWNLOAD_WIDTH x DOWNLOAD_HEIGHT divided by this.
ExportShrink == 480

ExportWidth == DOWNLOAD_WIDTH \div ExportShrink
ExportHeight == DOWNLOAD_HEIGHT \div ExportShrink

MaxEvents == 2

Seeds == { <<0, 42>>, <<65535, 65535>> }

Viewports == { <<0, 9>>, <<16, 0>>, <<8, 4>>, <<16, 8>> }

Init ==
    /\ seed \in Seeds
    /\ viewport \in Viewports
    /\ previewCtx \in BOOLEAN
    /\ observed = None
    /\ effects = "pending"
    /\ roPending = FALSE
    /\ lastPreview = None
    /\ lastExport = None
    /\ nEvents = 0
    /\ pc = "idle"
    /\ run = NoRun
    /\ random = Mulberry
    /\ a = <<0, 0>> /\ drawn = 0 /\ lastValue = <<0, 0>>
    /\ p = Identity /\ idx = 0 /\ permutation = NoTable /\ sample = NoSample
    /\ log = <<>> /\ scene = NoScene /\ outcome = "none" /\ history = {}

\* line 245: drawScene(canvas, clientWidth, clientHeight, targetSeed); line 276
Enter(caller, ctx, width, height, s) ==
    /\ run' = [caller |-> caller, ctx |-> ctx, width |-> width, height |-> height, seed |-> s]
    /\ pc' = "getContext"
    /\ log' = <<>>
    /\ scene' = NoScene
    /\ outcome' = "none"

\* lines 258-261 after line 256's observer is built: the effect's cleanup has
\* disconnected the previous observer, and a new one observes the container
MutObserveOnce(s) == IF observed = None THEN s ELSE observed

Observe(s) == s

\* lines 250-262: the two effects of a render, in order.  renderPreview (232-248)
\* returns at line 242 when the canvas yields no context.
RunEffects ==
    /\ pc = "idle"
    /\ effects = "pending"
    /\ IF previewCtx
       THEN /\ Enter("effect", TRUE, viewport[1], viewport[2], seed)
            /\ lastPreview' = [seed |-> seed, width |-> viewport[1], height |-> viewport[2]]
            /\ UNCHANGED <<observed, effects, roPending>>
       ELSE /\ observed' = Observe(seed)
            /\ roPending' = TRUE
            /\ effects' = "done"
            /\ UNCHANGED <<run, pc, log, scene, outcome, lastPreview>>
    /\ UNCHANGED <<rngVars, random, perlinVars, history, seed, viewport, previewCtx,
                   lastExport, nEvents>>

\* lines 264-267: setSeed(nextSeed); a state equal to the current one renders nothing
Regenerate ==
    /\ pc = "idle"
    /\ effects = "done"
    /\ nEvents < MaxEvents
    /\ \E nextSeed \in Seeds :
          /\ seed' = nextSeed
          /\ effects' = IF nextSeed = seed THEN "done" ELSE "pending"
    /\ nEvents' = nEvents + 1
    /\ UNCHANGED <<rngVars, run, random, perlinVars, pc, sceneVars, observed, viewport,
                   previewCtx, roPending, lastPreview, lastExport>>

\* the container changes size; the connected observer will be notified
Resize ==
    /\ pc = "idle"
    /\ effects = "done"
    /\ nEvents < MaxEvents
    /\ \E v \in Viewports \ {viewport} : viewport' = v
    /\ roPending' = TRUE
    /\ nEvents' = nEvents + 1
    /\ UNCHANGED <<rngVars, run, random, perlinVars, pc, sceneVars, seed, observed,
                   previewCtx, effects, lastPreview, lastExport>>

\* lines 255-257: the observer's callback, renderPreview(seed) of its closure
ResizeCallback ==
    /\ pc = "idle"
    /\ effects = "done"
    /\ roPending
    /\ roPending' = FALSE
    /\ IF previewCtx
       THEN /\ Enter("resize", TRUE, viewport[1], viewport[2], observed)
            /\ lastPreview' = [seed |-> observed, width |-> viewport[1], height |-> viewport[2]]
       ELSE UNCHANGED <<run, pc, log, scene, outcome, lastPreview>>
    /\ UNCHANGED <<rngVars, random, perlinVars, history, seed, observed, viewport,
                   previewCtx, effects, lastExport, nEvents>>

\* lines 269-276: isRendering is false in every render (lines 271 and 284 are
\* batched within the handler), so line 270 never returns.  The offscreen canvas
\* is new; it yields a context or not.
Download ==
    /\ pc = "idle"
    /\ effects = "done"
    /\ nEvents < MaxEvents
    /\ \E ctx \in BOOLEAN : Enter("download", ctx, ExportWidth, ExportHeight, seed)
    /\ nEvents' = nEvents + 1
    /\ UNCHANGED <<rngVars, random, perlinVars, history, seed, observed, viewport,
                   previewCtx, effects, roPending, lastPreview, lastExport>>

\* lines 211-212
GetContext ==
    /\ pc = "getContext"
    /\ IF run.ctx
       THEN pc' = "mulberry32" /\ outcome' = outcome
       ELSE pc' = "return" /\ outcome' = "undefined"
    /\ UNCHANGED <<rngVars, run, random, perlinVars, log, scene, history, homeVars>>

MutInitCarried(s) == IF drawn = 0 THEN Mulberry32Init(s) ELSE a

\* line 213: a new generator, whose state is the seed
NewGenerator(s) == Mulberry32Init(s)

CreateRandom ==
    /\ pc = "mulberry32"
    /\ a' = NewGenerator(run.seed)
    /\ drawn' = 0
    /\ lastValue' = <<0, 0>>
    /\ log' = Append(log, "mulberry32")
    /\ pc' = "createPerlin"
    /\ UNCHANGED <<run, random, perlinVars, scene, outcome, history, homeVars>>

\* line 214: createPerlin(random), lines 28-43
CreatePerlin ==
    /\ pc = "createPerlin"
    /\ \E st \in {ShuffleRange(random, [p |-> Identity, a |-> a, drawn |-> drawn,
                                          value |-> lastValue], 255, 1)} :
          /\ permutation' = Duplicate(st.p)
          /\ a' = st.a
          /\ drawn' = st.drawn
          /\ lastValue' = st.value
    /\ log' = Append(log, "createPerlin")
    /\ pc' = "clearRect"
    /\ UNCHANGED <<run, random, p, idx, sample, scene, outcome, history, homeVars>>

\* line 217
ClearRect ==
    /\ pc = "clearRect"
    /\ log' = Append(log, "clearRect")
    /\ pc' = "fillBackground"
    /\ UNCHANGED <<rngVars, run, random, perlinVars, scene, outcome, history, homeVars>>

\* line 218
FillBackground ==
    /\ pc = "fillBackground"
    /\ log' = Append(log, "fillBackground")
    /\ pc' = "drawExplosion"
    /\ UNCHANGED <<rngVars, run, random, perlinVars, scene, outcome, history, homeVars>>

Now == [a |-> a, drawn |-> drawn]

Keep(st) ==
    /\ a' = st.a
    /\ drawn' = st.drawn
    /\ lastValue' = lastValue

\* line 219
DrawExplosion ==
    /\ pc = "drawExplosion"
    /\ \E r \in {Explosion(random, Now)} :
          /\ Keep(r.st)
          /\ scene' = [scene EXCEPT !.fireballs = r.shapes,
                                    !.marks = Append(@, drawn)]
    /\ log' = Append(log, "drawExplosion")
    /\ pc' = "drawSmoke"
    /\ UNCHANGED <<run, random, perlinVars, outcome, history, homeVars>>

\* line 220.  When the loop of line 119 does not end, the call has made line
\* 115's first random() and stays in that loop.
DrawSmoke ==
    /\ pc = "drawSmoke"
    /\ log' = Append(log, "drawSmoke")
    /\ IF PathLoopEnds(run.width)
       THEN \E r \in {Smoke(random, Now)} :
               /\ Keep(r.st)
               /\ scene' = [scene EXCEPT !.offsets = r.values,
                                         !.marks = Append(@, drawn)]
               /\ pc' = "drawEmbers"
       ELSE \E r \in {Calls(random, Now, 1)} :
               /\ Keep(r.st)
               /\ scene' = [scene EXCEPT !.offsets = r.values,
                                         !.marks = Append(@, drawn)]
               /\ pc' = "smokeTest"
    /\ UNCHANGED <<run, random, perlinVars, outcome, history, homeVars>>

\* lines 119-123 with width = 0: the test x <= width holds, the body adds a
\* point to the path and 0 to x, and the test is made again
SmokeLoop ==
    /\ pc \in {"smokeTest", "smokeBody"}
    /\ pc' = IF pc = "smokeTest" THEN "smokeBody" ELSE "smokeTest"
    /\ UNCHANGED <<rngVars, run, random, perlinVars, log, scene, outcome, history, homeVars>>

\* line 221
DrawEmbers ==
    /\ pc = "drawEmbers"
    /\ \E r \in {Embers(random, Now, permutation, run.width, run.height)} :
          /\ Keep(r.st)
          /\ scene' = [scene EXCEPT !.embers = r.shapes,
                                    !.marks = Append(@, drawn)]
    /\ log' = Append(log, "drawEmbers")
    /\ pc' = "drawTerrain"
    /\ UNCHANGED <<run, random, perlinVars, outcome, history, homeVars>>

\* line 222.  The loop of line 156 ends: width = 0 never passes drawSmoke.
DrawTerrain ==
    /\ pc = "drawTerrain"
    /\ PathLoopEnds(run.width)
    /\ \E r \in {Terrain(random, Now)} :
          /\ Keep(r.st)
          /\ scene' = [scene EXCEPT !.structures = r.shapes,
                                    !.marks = Append(@, drawn)]
    /\ log' = Append(log, "drawTerrain")
    /\ pc' = "drawAtmosphericDust"
    /\ UNCHANGED <<run, random, perlinVars, outcome, history, homeVars>>

\* line 223
DrawAtmosphericDust ==
    /\ pc = "drawAtmosphericDust"
    /\ \E st \in {AtmosphericDust(random, Now, run.width)} : Keep(st)
    /\ scene' = [scene EXCEPT !.dust = Density(run.width),
                              !.marks = Append(@, drawn)]
    /\ log' = Append(log, "drawAtmosphericDust")
    /\ pc' = "return"
    /\ outcome' = "undefined"
    /\ UNCHANGED <<run, random, perlinVars, history, homeVars>>

\* what a call that has returned leaves behind
Returned ==
    [args |-> [ctx |-> run.ctx, width |-> run.width, height |-> run.height, seed |-> run.seed],
     caller |-> run.caller, outcome |-> outcome, log |-> log, scene |-> scene,
     table |-> IF log = <<>> THEN NoTable ELSE permutation,
     a |-> IF log = <<>> THEN <<0, 0>> ELSE a,
     drawn |-> IF log = <<>> THEN 0 ELSE drawn]

\* drawScene has returned (line 212 or 224) and its caller goes on: the effects
\* with lines 254-262, download with lines 277-285
Return ==
    /\ pc = "return"
    /\ history' = history \cup {Returned}
    /\ pc' = "idle"
    /\ IF run.caller = "effect"
       THEN /\ observed' = Observe(seed)
            /\ roPending' = TRUE
            /\ effects' = "done"
       ELSE UNCHANGED <<observed, roPending, effects>>
    /\ IF run.caller = "download"
       THEN lastExport' = [seed |-> run.seed, scene |-> log # <<>>]
       ELSE lastExport' = lastExport
    /\ UNCHANGED <<rngVars, run, random, perlinVars, log, scene, outcome, seed, viewport,
                   previewCtx, lastPreview, nEvents>>

DrawScene ==
    \/ GetContext \/ CreateRandom \/ CreatePerlin \/ ClearRect \/ FillBackground
    \/ DrawExplosion \/ DrawSmoke \/ SmokeLoop \/ DrawEmbers \/ DrawTerrain
    \/ DrawAtmosphericDust \/ Return

Next == RunEffects \/ Regenerate \/ Resize \/ ResizeCallback \/ Download \/ DrawScene

Spec == Init /\ [][Next]_vars

\* a call in progress goes on: the engine runs it to its end
FairSpec == Spec /\ WF_vars(DrawScene)

(***************************************************************************)
(* The properties.                                                         *)
(***************************************************************************)
\* the steps of a call of drawScene that runs to line 224, in order
Pipeline ==
    << "mulberry32", "createPerlin", "clearRect", "fillBackground", "drawExplosion",
       "drawSmoke", "drawEmbers", "drawTerrain", "drawAtmosphericDust" >>

Complete(r) == r.log = Pipeline

\* C1.  Any two calls of drawScene with the same arguments take the same steps,
\* build the same noise table, draw the same random values into the same shapes
\* and leave the generator in the same state, whatever calls came before or
\* between them: no generator or table state passes from one call to another.
SameArgumentsSameRun ==
    \A r1, r2 \in history :
        r1.args = r2.args =>
            /\ r1.log = r2.log
            /\ r1.table = r2.table
            /\ r1.scene = r2.scene
            /\ r1.a = r2.a
            /\ r1.drawn = r2.drawn
            /\ r1.outcome = r2.outcome

\* two complete calls with the same arguments, and a call with other arguments
RepeatedRun ==
    \E r1, r2, r3 \in history :
        /\ r1.args = r2.args
        /\ r1.caller # r2.caller
        /\ Complete(r1)
        /\ Complete(r2)
        /\ r3.args # r1.args
        /\ r3.args.ctx

\* C2.  A call with width <= 0 or height <= 0 takes no step of the pipeline
\* (no random draw, no clear, no fill) and ends with InvalidDimensions.
InvalidDimensionsFailFast ==
    (run.caller \in {"effect", "resize", "download"} /\ run.ctx
        /\ (run.width <= 0 \/ run.height <= 0)) =>
            /\ log = <<>>
            /\ pc \in {"return", "idle"} => outcome = "InvalidDimensions"

\* C3.  Every call that has acquired its context goes through the nine steps
\* of the pipeline, each once and in order, and returns.
EveryLayerOnce ==
    (pc = "mulberry32") ~> (pc = "return" /\ log = Pipeline)

\* C4.  Two complete calls with the same seed and dimensions of the same aspect
\* ratio draw their fireballs and their structures from the same positions of
\* the random stream, and have consumed the same number of values when Terrain
\* starts.
SameComposition ==
    \A r1, r2 \in history :
        ( /\ Complete(r1)
          /\ Complete(r2)
          /\ r1.args.seed = r2.args.seed
          /\ r1.args.width > 0 /\ r1.args.height > 0
          /\ r2.args.width > 0 /\ r2.args.height > 0
          /\ r1.args.width * r2.args.height = r2.args.width * r1.args.height ) =>
            /\ r1.scene.fireballs = r2.scene.fireballs
            /\ r1.scene.marks[4] = r2.scene.marks[4]
            /\ r1.scene.structures = r2.scene.structures

\* C5.  A call that gets no context ends with SurfaceUnavailable, and download
\* offers no file for a call that drew no scene.
SurfaceFailureSignalled ==
    /\ \A r \in history : ~r.args.ctx => r.outcome = "SurfaceUnavailable"
    /\ lastExport # None => lastExport.scene

\* C6.  The 256-entry array is a bijection on 0..255 after every swap and at
\* the end, pass i has consumed 255 - i values so that the loop consumes 255,
\* and the 512-entry table repeats the array: table[i] = p[i] = table[i + 256].
PermutationValid ==
    /\ pc \in {"shuffle", "ready"} =>
          /\ { p[i] : i \in 0..255 } = 0..255
          /\ drawn = 255 - idx
    /\ pc = "ready" =>
          /\ drawn = 255
          /\ \A i \in 0..255 : permutation[i] = p[i] /\ permutation[i + 256] = p[i]

\* a finished table that the shuffle has changed, built from a stub's values
ShuffledTable ==
    /\ pc = "ready"
    /\ random.kind = "stub"
    /\ p # Identity
    /\ permutation[511] = p[255]

(***************************************************************************)
(* The generator as specified, on words written as sequences of 32 bits,   *)
(* lowest first: each operation keeps the low 32 bits of its result.       *)
(***************************************************************************)
RECURSIVE ToBits(_, _)
ToBits(n, k) == IF k = 0 THEN <<>> ELSE <<n % 2>> \o ToBits(n \div 2, k - 1)

WordBits(w) == ToBits(w[2], 16) \o ToBits(w[1], 16)

RECURSIVE FromBits(_)
FromBits(b) == IF b = <<>> THEN 0 ELSE Head(b) + 2 * FromBits(Tail(b))

BitsWord(b) == <<FromBits(SubSeq(b, 17, 32)), FromBits(SubSeq(b, 1, 16))>>

RECURSIVE Zeros(_)
Zeros(k) == IF k = 0 THEN <<>> ELSE <<0>> \o Zeros(k - 1)

XorB(x, y) == [i \in 1..Len(x) |-> (x[i] + y[i]) % 2]

OrB(x, y) == [i \in 1..Len(x) |-> IF x[i] + y[i] > 0 THEN 1 ELSE 0]

\* x >> k, zeros coming in at the top
ShrB(x, k) == SubSeq(x, k + 1, Len(x)) \o Zeros(k)

\* x << k, the bits that leave the top dropped
ShlB(x, k) == Zeros(k) \o SubSeq(x, 1, Len(x) - k)

\* x + y + c as [bits, carry]: the low halves first, their carry into the high halves
RECURSIVE AddC(_, _, _)
AddC(x, y, c) ==
    IF Len(x) = 1
    THEN [bits |-> <<(x[1] + y[1] + c) % 2>>, carry |-> (x[1] + y[1] + c) \div 2]
    ELSE Bind(AddC(SubSeq(x, 1, Len(x) \div 2), SubSeq(y, 1, Len(x) \div 2), c), LAMBDA lo :
         Bind(AddC(SubSeq(x, Len(x) \div 2 + 1, Len(x)), SubSeq(y, Len(x) \div 2 + 1, Len(x)),
                   lo.carry), LAMBDA hi :
           [bits |-> lo.bits \o hi.bits, carry |-> hi.carry]))

\* x + y, the carry out of the top bit dropped
AddB(x, y) == AddC(x, y, 0).bits

\* x * y, the bits above x's length dropped: x times the low half of y, plus x
\* times the high half of y shifted to its place
RECURSIVE MulB(_, _)
MulB(x, y) ==
    IF Len(y) = 1 THEN (IF y[1] = 1 THEN x ELSE Zeros(Len(x)))
    ELSE Bind(MulB(x, SubSeq(y, 1, Len(y) \div 2)), LAMBDA lo :
         Bind(MulB(x, SubSeq(y, Len(y) \div 2 + 1, Len(y))), LAMBDA hi :
           AddB(lo, ShlB(hi, Len(y) \div 2))))

\* step (1), n times from seed s: s + n * 0x6D2B79F5 modulo 2^32
SpecState(s, n) ==
    LET lo == s[2] + n * 31221
        hi == s[1] + n * 27947 + lo \div 65536
    IN  <<hi % 65536, lo % 65536>>

\* steps (2) to (4) on the state w: the numerator of the value returned
SpecValue(w) ==
    Bind(WordBits(w), LAMBDA s :
    Bind(MulB(XorB(s, ShrB(s, 15)), OrB(s, WordBits(<<0, 1>>))), LAMBDA t1 :
    Bind(MulB(XorB(t1, ShrB(t1, 7)), OrB(t1, WordBits(<<0, 61>>))), LAMBDA m :
    Bind(XorB(t1, AddB(t1, m)), LAMBDA t2 :
      BitsWord(XorB(t2, ShrB(t2, 14)))))))

\* C7.  After n calls the state is (seed + n * 0x6D2B79F5) mod 2^32, and the
\* n-th value has the numerator the specified multiply-xor-shift steps give for
\* that state, an integer of 0..2^32 - 1, so that the value is in [0, 1).
Mulberry32AsSpecified ==
    /\ a = SpecState(run.seed, drawn)
    /\ drawn >= 1 =>
          /\ lastValue = SpecValue(a)
          /\ lastValue[1] \in 0..65535
          /\ lastValue[2] \in 0..65535

\* several calls from the largest seed: the state has wrapped around
WrappedCalls ==
    /\ drawn >= 3
    /\ run.seed = <<65535, 65535>>
    /\ a[1] < 65535
    /\ lastValue # <<0, 0>>

\* C8.  Every evaluation of the noise function is >= 0 and < 1, and every index
\* of the table it reads is in 0..511.
NoiseBounded ==
    sample # NoSample =>
        /\ 0 <= sample.num
        /\ sample.num < sample.den
        /\ sample.reads \subseteq 0..511

\* an evaluation on a lattice line of the last cell that reads the table's last entry
EdgeSample ==
    /\ sample # NoSample
    /\ 511 \in sample.reads
    /\ sample.y % NoiseGrid = 0
    /\ sample.x % NoiseGrid = NoiseGrid \div 2

\* C9.  When the effects have run and no notification is waiting, the last
\* preview call had the current seed and the current size of the container; a
\* resize callback renders with the current seed; download renders with the
\* current seed, which is the seed of the preview on display.
PreviewCurrent ==
    /\ (pc = "idle" /\ effects = "done" /\ ~roPending /\ previewCtx) =>
          lastPreview = [seed |-> seed, width |-> viewport[1], height |-> viewport[2]]
    /\ (pc # "idle" /\ run.caller = "resize") => run.seed = seed
    /\ (pc # "idle" /\ run.caller = "download") =>
          /\ run.seed = seed
          /\ previewCtx => (lastPreview # None /\ lastPreview.seed = run.seed)

\* the preview is at rest after the seed has changed and a resize callback
\* has rendered with the new seed
PreviewSettled ==
    /\ pc = "idle" /\ effects = "done" /\ ~roPending /\ previewCtx
    /\ \E r \in history : r.caller = "resize" /\ r.args.seed = seed
    /\ \E r \in history : r.args.seed # seed

\* the offsets from a corner of the cell, in grid units
Offsets == (0 - NoiseGrid)..NoiseGrid

\* C10.  Two corner hashes that differ in their low two bits select different
\* gradient directions: some offset gives them different values.
FourDirections ==
    \A h1, h2 \in { sample.corners[k] : k \in DOMAIN sample.corners } :
        (h1 % 4 # h2 % 4) =>
            \E x, y \in Offsets : Grad(h1, x, y) # Grad(h2, x, y)

=============================================================================
